---- MODULE Spec2Model ----
(***************************************************************************)
(* A state-machine model of administrative/count-contributions.py: the     *)
(* batch pipeline that opens a git repository, selects the remote-tracking *)
(* branches of one remote, walks every branch's history into one shared    *)
(* commit map, aggregates the map per committer and per e-mail domain and  *)
(* exports CSV tables and pie charts.                                      *)
(*                                                                         *)
(* Python strings that the program splits, joins or searches are modelled  *)
(* as sequences of one-character strings; Python dicts, which iterate in   *)
(* insertion order, are modelled as sequences of records that carry their  *)
(* key in a field.                                                         *)
(***************************************************************************)
EXTENDS Integers, Sequences, FiniteSets, TLC

\* ------------------------------------------------------------------------
\* Bounds of the model
\* ------------------------------------------------------------------------

\* Number of commits in the modelled object store (commits are 1..NumCommits).
NumCommits == 3

\* Longest enumeration of remote-tracking branches that is explored.
MaxBranches == 3

Commits == 1..NumCommits

\* ------------------------------------------------------------------------
\* String literals of the program and of the modelled inputs
\* ------------------------------------------------------------------------

s_master == <<"m", "a", "s", "t", "e", "r">>
s_HEAD == <<"H", "E", "A", "D">>
s_refs_remotes == <<"r", "e", "f", "s", "/", "r", "e", "m", "o", "t", "e", "s", "/">>
s_slash == <<"/">>
s_at == <<"@">>
s_dot == <<".">>
s_origin == <<"o", "r", "i", "g", "i", "n">>
s_fork == <<"f", "o", "r", "k">>
s_upstream == <<"u", "p", "s", "t", "r", "e", "a", "m">>
s_dev == <<"d", "e", "v">>
s_rel == <<"r", "e", "l">>
s_hotfix == <<"m", "a", "s", "t", "e", "r", "-", "f", "i", "x">>
s_topic == <<"t", "o", "p", "i", "c", "/", "x">>
e_lists == <<"a", "@", "l", "i", "s", "t", "s", ".", "f", "o", "o", ".", "e", "x", "a", "m", "p", "l", "e", ".", "c", "o", "m">>
e_a == <<"a", "@", "e", "x", "a", "m", "p", "l", "e", ".", "c", "o", "m">>
e_b == <<"b", "@", "e", "x", "a", "m", "p", "l", "e", ".", "c", "o", "m">>
e_root == <<"r", "o", "o", "t">>
e_two == <<"a", "@", "b", "@", "c", ".", "d">>
e_local == <<"a", "@", "l", "o", "c", "a", "l", "h", "o", "s", "t">>

\* Python's None where the program tests it for truth: falsy, like the
\* empty list.
None == <<>>

\* ------------------------------------------------------------------------
\* Pure functions: str methods used by the program
\* ------------------------------------------------------------------------

\* Index of the first occurrence of the one-character separator sep in s,
\* 0 when there is none.
FindChar(s, sep) ==
    IF \E i \in 1..Len(s) : <<s[i]>> = sep
    THEN CHOOSE i \in 1..Len(s) :
            /\ <<s[i]>> = sep
            /\ \A j \in 1..(i - 1) : <<s[j]>> # sep
    ELSE 0

\* s.split(sep, maxsplit): maxsplit = -1 splits at every separator.
RECURSIVE split(_, _, _)
split(s, sep, maxsplit) ==
    LET i == FindChar(s, sep)
    IN  IF i = 0 \/ maxsplit = 0
        THEN <<s>>
        ELSE <<SubSeq(s, 1, i - 1)>> \o split(SubSeq(s, i + 1, Len(s)), sep, maxsplit - 1)

\* sep.join(parts)
RECURSIVE join(_, _)
join(sep, parts) ==
    IF Len(parts) = 0 THEN <<>>
    ELSE IF Len(parts) = 1 THEN parts[1]
    ELSE parts[1] \o sep \o join(sep, Tail(parts))

\* sub in s
contains(sub, s) ==
    \E i \in 1..(Len(s) - Len(sub) + 1) : SubSeq(s, i, i + Len(sub) - 1) = sub

\* parts[-2:]
LastTwo(parts) ==
    IF Len(parts) <= 2 THEN parts ELSE SubSeq(parts, Len(parts) - 1, Len(parts))

\* ------------------------------------------------------------------------
\* The modelled inputs: command line, file system, clock, repository
\* ------------------------------------------------------------------------

\* Hexadecimal digits used to build commit ids.
Hex == <<"1", "2", "3", "4", "5", "6", "7", "8", "9", "a", "b", "c", "d", "e", "f">>

\* The default of shorthash's len parameter.
ShortHashLen == 10

\* A commit id: a ShortHashLen-character prefix numbered p followed by one
\* character that tells the commits sharing that prefix apart.
CommitId(p, c) ==
    [i \in 1..ShortHashLen |-> IF i = ShortHashLen THEN Hex[p] ELSE "0"] \o <<Hex[c]>>

\* branch.branch_name of a remote-tracking branch: "<remote>/<branch>".
FullName(remote, branch) == remote \o s_slash \o branch

n_master == FullName(s_origin, s_master)
n_HEAD == FullName(s_origin, s_HEAD)
n_dev == FullName(s_origin, s_dev)
n_rel == FullName(s_origin, s_rel)
n_hotfix == FullName(s_origin, s_hotfix)
n_topic == FullName(s_origin, s_topic)
n_forkdev == FullName(s_fork, s_dev)

BranchNames == {n_master, n_HEAD, n_dev, n_rel, n_hotfix, n_topic, n_forkdev}

Range(q) == {q[i] : i \in 1..Len(q)}

\* Sequences without repetition over the set S, of length at most n.
RECURSIVE Arrangements(_, _)
Arrangements(S, n) ==
    IF n = 0 THEN {<<>>}
    ELSE LET shorter == Arrangements(S, n - 1)
         IN  shorter \cup
             UNION {{Append(q, x) : x \in S \ Range(q)} :
                        q \in {r \in shorter : Len(r) = n - 1}}

\* The parent lists a commit c may have: none (a root), one, or two (a
\* merge); parents are older commits.
ParentChoices(c) ==
    {<<>>}
    \cup {<<p>> : p \in {x \in Commits : x < c /\ x >= c - 2}}
    \cup {<<p, q>> : p \in {x \in Commits : x = c - 2 /\ x >= 1}, q \in {x \in Commits : x = c - 1}}

Dags == {f \in [Commits -> UNION {ParentChoices(c) : c \in Commits}] :
            \A c \in Commits : f[c] \in ParentChoices(c)}

Chain == [c \in Commits |-> IF c = 1 THEN <<>> ELSE <<c - 1>>]

\* The clock of every modelled run (time.time() in days since the epoch, and
\* the local zone's offset from UTC) and the --days window: the cutoff is
\* the instant Cutoff.
Clock(off) == [now |-> 5, utcoffset |-> off]
DaysArgument == 5 - 3
Cutoff == 5 - DaysArgument
TimeClasses == <<Cutoff - 1, Cutoff, Cutoff + 1>>

\* Assignments of timestamps to commits: constant ones, and the rising and
\* falling cycles through before / at / after the cutoff.
TimeProfiles ==
    {[c \in Commits |-> TimeClasses[k]] : k \in 1..3}
    \cup {[c \in Commits |-> TimeClasses[((c + k) % 3) + 1]] : k \in 0..2}
    \cup {[c \in Commits |-> TimeClasses[((k + 3 * NumCommits - c) % 3) + 1]] : k \in 0..2}

\* Which commits share their short hash: all distinct, or one colliding pair.
PrefixChoices ==
    {[c \in Commits |-> c]}
    \cup {[c \in Commits |-> IF c = ab[2] THEN ab[1] ELSE c] :
             ab \in {x \in Commits \X Commits : x[1] < x[2]}}

Authors == {[name |-> "A", email |-> e_a],
            [name |-> "A", email |-> e_lists],
            [name |-> "B", email |-> e_b],
            [name |-> "R", email |-> e_root],
            [name |-> "T", email |-> e_two],
            [name |-> "L", email |-> e_local]}

DefaultAuthor(c) ==
    IF c % 3 = 1 THEN [name |-> "A", email |-> e_a]
    ELSE IF c % 3 = 2 THEN [name |-> "B", email |-> e_b]
    ELSE [name |-> "A", email |-> e_lists]

\* Lines added and removed by a commit relative to its first parent.
DefaultLines == [c \in Commits |-> [added |-> c, removed |-> 1]]

DefaultTip == [n \in BranchNames |-> IF n \in {n_master, n_HEAD} THEN NumCommits ELSE 1]

Repository(isgit, enum, tip, parents, times, pfx, author) ==
    [is_git          |-> isgit,
     remotes         |-> {s_origin, s_fork},
     remote_branches |-> enum,
     tip             |-> tip,
     parents         |-> parents,
     commit_time     |-> times,
     id              |-> [c \in Commits |-> CommitId(pfx[c], c)],
     author          |-> author,
     lines           |-> DefaultLines]

Environment(exists, isdir, off) ==
    [path_exists |-> exists, path_isdir |-> isdir, clock |-> Clock(off)]

\* --skip-merge-commits is declared store_true with default=True: the parsed
\* value is True whether or not the flag is given.
ParseSkipMergeCommits(flag_given) == IF flag_given THEN TRUE ELSE TRUE

Arguments(remote, flag_given) ==
    [remote |-> remote, days |-> DaysArgument,
     skip_merge_commits |-> ParseSkipMergeCommits(flag_given)]

\* ------------------------------------------------------------------------
\* Pure functions of the program
\* ------------------------------------------------------------------------

\* A dict is a sequence of [key, val] records in insertion order.
HasKey(d, k) == \E i \in 1..Len(d) : d[i].key = k

KeyIndex(d, k) == CHOOSE i \in 1..Len(d) : d[i].key = k

Get(d, k) == d[KeyIndex(d, k)].val

\* d[k] = v: an existing key keeps its place, a new key is appended.
Put(d, k, v) ==
    IF HasKey(d, k)
    THEN [d EXCEPT ![KeyIndex(d, k)] = [key |-> k, val |-> v]]
    ELSE Append(d, [key |-> k, val |-> v])

\* shorthash(commit, len=10): sha[0:len] of the commit's id.
shorthash(id) ==
    SubSeq(id, 1, IF Len(id) < ShortHashLen THEN Len(id) ELSE ShortHashLen)

\* datetime.datetime.fromtimestamp(t): the naive local time of the instant t.
fromtimestamp(t, clock) == t + clock.utcoffset

\* datetime.datetime.today(): the naive local time of now.
today(clock) == fromtimestamp(clock.now, clock)

\* main's cutoff: start = now - timedelta(days=args.days).
StartTimestamp(a, clock) == today(clock) - a.days

\* branch.name: the full reference name of a remote-tracking branch.
RefName(branch_name) == s_refs_remotes \o branch_name

\* repo.branches[name]: the lookup raises KeyError unless the branch exists.
BranchExists(r, name) == name \in Range(r.remote_branches)

\* The loop of find_branches over repo.branches.remote. reason_bound tells
\* whether the local variable 'reason' has been assigned by an earlier
\* iteration; formatting the "Skipping" message reads it.
RECURSIVE find_branches_loop(_, _, _, _, _, _)
find_branches_loop(r, todo, remote, desired_branches, branches, reason_bound) ==
    IF Len(todo) = 0
    THEN [error |-> "", branches |-> branches]
    ELSE
      LET parts == split(Head(todo), s_slash, 2)
      IN  IF Len(parts) < 2
          THEN [error |-> "IndexError", branches |-> branches]
          ELSE
            LET remote_name == parts[1]
                branch_name == parts[2]
                wrong_remote == remote_name # remote
                is_head == ~wrong_remote /\ branch_name = s_HEAD
                no_filter == Len(desired_branches) = 0
                not_desired == /\ ~wrong_remote
                               /\ ~is_head
                               /\ ~no_filter
                               /\ branch_name \notin Range(desired_branches)
                want == ~wrong_remote /\ ~is_head /\ ~not_desired
                bound == reason_bound \/ wrong_remote \/ not_desired
                full_name == FullName(remote_name, branch_name)
            IN  IF ~want
                THEN IF ~bound
                     THEN [error |-> "UnboundLocalError", branches |-> branches]
                     ELSE find_branches_loop(r, Tail(todo), remote, desired_branches,
                                             branches, bound)
                ELSE IF ~BranchExists(r, full_name)
                     THEN [error |-> "KeyError", branches |-> branches]
                     ELSE find_branches_loop(r, Tail(todo), remote, desired_branches,
                                             Append(branches, full_name), bound)

find_branches(r, remote, desired_branches) ==
    find_branches_loop(r, r.remote_branches, remote, desired_branches, <<>>, FALSE)

\* The commits repo.walk yields from a tip: the tip and all its ancestors.
RECURSIVE Reachable(_, _)
Reachable(r, c) ==
    {c} \cup UNION {Reachable(r, r.parents[c][i]) : i \in 1..Len(r.parents[c])}

\* GIT_SORT_TOPOLOGICAL | GIT_SORT_REVERSE: a commit is yielded only after
\* all of its parents; the order among the others is the library's.
ReadyToVisit(r, tip, seen) ==
    {c \in Reachable(r, tip) \ seen : \A i \in 1..Len(r.parents[c]) : r.parents[c][i] \in seen}

\* The counters of one examine_branch call.
ZeroCounts ==
    [total     |-> 0,
     unique    |-> [inside |-> 0, outside |-> 0],
     duplicate |-> [inside |-> 0, outside |-> 0]]

\* Mutant: only a commit with more than two parents counts as a merge.
IsMerge_MoreThanTwo(r, c) == Len(r.parents[c]) > 2

\* len(commit.parents) > 1
IsMerge(r, c) == Len(r.parents[c]) > 1

\* Mutant: the membership test is dropped and every commit is first-seen.
Key1_AlwaysUnique(r, c, map) == "unique"

\* 'duplicate' if sha in commits else 'unique'
Key1(r, c, map) == IF HasKey(map, shorthash(r.id[c])) THEN "duplicate" ELSE "unique"

\* Mutant: a commit exactly at the cutoff is classified outside.
Key2_InclusiveCutoff(r, c, start_timestamp, clock) ==
    IF fromtimestamp(r.commit_time[c], clock) <= start_timestamp THEN "outside" ELSE "inside"

\* 'outside' if dt < start_timestamp else 'inside'
Key2(r, c, start_timestamp, clock) ==
    IF fromtimestamp(r.commit_time[c], clock) < start_timestamp THEN "outside" ELSE "inside"

\* commit.tree.diff_to_tree(commit.parents[0].tree), or diff_to_tree() against
\* the empty tree for a root commit. The diff is taken from the commit towards
\* its parent, so its stats count the commit's added lines as deletions.
Diff(r, c) ==
    [new   |-> c,
     old   |-> IF Len(r.parents[c]) > 0 THEN r.parents[c][1] ELSE 0,
     stats |-> [insertions |-> r.lines[c].removed, deletions |-> r.lines[c].added]]

\* Mutant: happy is incremented on both sides of the window test.
Happy_IgnoresWindow(r, c, map, start_timestamp, clock) ==
    (IF Key1(r, c, map) = "unique" THEN 1 ELSE 0) + 1

\* happy: one for a first-seen commit, one for a commit inside the window.
Happy(r, c, map, start_timestamp, clock) ==
    (IF Key1(r, c, map) = "unique" THEN 1 ELSE 0)
    + (IF Key2(r, c, start_timestamp, clock) = "inside" THEN 1 ELSE 0)

\* Mutant: a commit inside the window is saved whether or not it is new.
ExamineCommitMap_SavesDuplicates(r, c, branch, start_timestamp, clock, map, skip_merges) ==
    IF IsMerge(r, c) /\ skip_merges
    THEN map
    ELSE IF Key2(r, c, start_timestamp, clock) = "inside"
         THEN Put(map, shorthash(r.id[c]),
                  [sha    |-> shorthash(r.id[c]),
                   commit |-> c,
                   branch |-> branch,
                   diff   |-> Diff(r, c)])
         ELSE map

\* One iteration of examine_branch's loop: the commit map afterwards.
ExamineCommitMap(r, c, branch, start_timestamp, clock, map, skip_merges) ==
    IF IsMerge(r, c) /\ skip_merges
    THEN map
    ELSE IF Happy(r, c, map, start_timestamp, clock) = 2
         THEN Put(map, shorthash(r.id[c]),
                  [sha    |-> shorthash(r.id[c]),
                   commit |-> c,
                   branch |-> branch,
                   diff   |-> Diff(r, c)])
         ELSE map

\* One iteration of examine_branch's loop: the counters afterwards.
ExamineCommitCounts(r, c, start_timestamp, clock, map, cnt, skip_merges) ==
    IF IsMerge(r, c) /\ skip_merges
    THEN cnt
    ELSE LET key1 == Key1(r, c, map)
             key2 == Key2(r, c, start_timestamp, clock)
         IN  [cnt EXCEPT !.total = @ + 1, ![key1][key2] = @ + 1]

\* The domain bucket of an author e-mail that has an '@': parts[1] of
\* email.split('@'), cut to its last two dot-separated labels when it has
\* more than two.
EmailDomain(email) ==
    LET domain == split(email, s_at, -1)[2]
        parts  == split(domain, s_dot, -1)
    IN  IF Len(parts) > 2 THEN join(s_dot, LastTwo(parts)) ELSE domain

\* Mutant: the test is off by one and also skips an e-mail with one '@'.
IsBogusEmail_OffByOne(email) == Len(split(email, s_at, -1)) < 3

\* Catch / skip bogus email addresses: len(email.split('@')) < 2.
IsBogusEmail(email) == Len(split(email, s_at, -1)) < 2

NewCommitter(name, email, domain) ==
    [name |-> name, email |-> email, domain |-> domain,
     num_commits |-> 0, num_additions |-> 0, num_deletions |-> 0]

NewDomain(domain) ==
    [domain |-> domain, num_commits |-> 0, num_additions |-> 0, num_deletions |-> 0]

\* bucket with one more commit and the diff's line counts: additions are read
\* from stats.deletions and deletions from stats.insertions.
Accumulate(bucket, diff) ==
    [bucket EXCEPT !.num_commits   = @ + 1,
                   !.num_additions = @ + diff.stats.deletions,
                   !.num_deletions = @ + diff.stats.insertions]

\* The loop of examine_contributions over commits.items().
RECURSIVE examine_contributions_loop(_, _, _, _)
examine_contributions_loop(r, items, cmt, dom) ==
    IF Len(items) = 0
    THEN [committers |-> cmt, domains |-> dom]
    ELSE
      LET data   == Head(items).val
          name   == r.author[data.commit].name
          email  == r.author[data.commit].email
      IN  IF IsBogusEmail(email)
          THEN examine_contributions_loop(r, Tail(items), cmt, dom)
          ELSE
            LET domain == EmailDomain(email)
                cmt1   == IF HasKey(cmt, email) THEN cmt
                          ELSE Put(cmt, email, NewCommitter(name, email, domain))
                cmt2   == Put(cmt1, email, Accumulate(Get(cmt1, email), data.diff))
                dom1   == IF HasKey(dom, domain) THEN dom
                          ELSE Put(dom, domain, NewDomain(domain))
                dom2   == Put(dom1, domain, Accumulate(Get(dom1, domain), data.diff))
            IN  examine_contributions_loop(r, Tail(items), cmt2, dom2)

examine_contributions(r, map) == examine_contributions_loop(r, map, <<>>, <<>>)

\* The sanity check's sum of num_commits over a dict of buckets.
RECURSIVE SumNumCommits(_)
SumNumCommits(d) ==
    IF Len(d) = 0 THEN 0 ELSE Head(d).val.num_commits + SumNumCommits(Tail(d))

\* The rows write_commits_csv builds, one per entry of the commit map.
CommitRows(r, map, clock) ==
    [i \in 1..Len(map) |->
        [key |-> map[i].key,
         val |-> [sha           |-> map[i].key,
                  name          |-> r.author[map[i].val.commit].name,
                  email         |-> r.author[map[i].val.commit].email,
                  date          |-> fromtimestamp(r.commit_time[map[i].val.commit], clock),
                  branch        |-> map[i].val.branch,
                  num_additions |-> map[i].val.diff.stats.deletions,
                  num_deletions |-> map[i].val.diff.stats.insertions,
                  url           |-> <<"https://github.com/open-mpi/ompi/commit/">> \o map[i].key]]]

\* write_csv reads first_key, which the loop over data binds only when data
\* has a key.
WriteCsvError(data) == IF Len(data) = 0 THEN "UnboundLocalError" ELSE ""

\* The file write_csv writes: the first record's field names and one row per
\* record.
CsvFile(data) ==
    LET fieldnames == DOMAIN data[1].val
    IN  [fieldnames |-> fieldnames,
         rows       |-> [i \in 1..Len(data) |-> [f \in fieldnames |-> data[i].val[f]]]]

\* The chart pie_plot saves.
PieFile(data, label_index, value_index, title) ==
    [title  |-> title,
     labels |-> [i \in 1..Len(data) |-> data[i].val[label_index]],
     values |-> [i \in 1..Len(data) |-> data[i].val[value_index]]]

\* main's four pie_plot calls, in order.
Plots ==
    << [data |-> "committers", label |-> "email", value |-> "num_commits",
        title |-> "Number of commits per committer",
        filename |-> "committers-num-commits-plot.pdf"],
       [data |-> "committers", label |-> "email", value |-> "num_additions",
        title |-> "Number of additions per committer",
        filename |-> "committers-num-additions-plot.pdf"],
       [data |-> "domains", label |-> "domain", value |-> "num_commits",
        title |-> "Number of commits per domain",
        filename |-> "domains-num-commits-plot.pdf"],
       [data |-> "domains", label |-> "domain", value |-> "num_additions",
        title |-> "Number of additions per domain",
        filename |-> "domains-num-additions-plot.pdf"] >>

\* ------------------------------------------------------------------------
\* State
\* ------------------------------------------------------------------------

VARIABLES
    args,         \* the parsed command line
    env,          \* the file system's answer about --repo, and the clock
    repo,         \* the repository: remotes, branches, commits
    pc,           \* main's position
    exit_status,  \* the process's exit status; -1 while it runs
    error,        \* the exception that ended the run, "" if none
    branches,     \* find_branches's result
    start,        \* the cutoff, a naive local time
    idx,          \* main's loop over branches: index of the next one
    cur,          \* examine_branch: the branch being walked
    seen,         \* examine_branch: the commits repo.walk has yielded
    counts,       \* examine_branch: its counters
    commits,      \* the commit map
    committers,   \* the committer aggregate
    domains,      \* the domain aggregate
    log,          \* the log lines that name branches and statistics
    printed,      \* the lines printed to standard output
    files,        \* the files written, by name
    plot          \* main's position among its four pie_plot calls

vars == <<args, env, repo, pc, exit_status, error, branches, start, idx, cur,
          seen, counts, commits, committers, domains, log, printed, files, plot>>

inputs == <<args, env, repo>>

Config(a, e, r) == [args |-> a, env |-> e, repo |-> r]

InitFrom(configs) ==
    /\ \E cfg \in configs :
          /\ args = cfg.args
          /\ env = cfg.env
          /\ repo = cfg.repo
    /\ pc = "setup_cli"
    /\ exit_status = -1
    /\ error = ""
    /\ branches = <<>>
    /\ start = 0
    /\ idx = 0
    /\ cur = <<>>
    /\ seen = {}
    /\ counts = ZeroCounts
    /\ commits = <<>>
    /\ committers = <<>>
    /\ domains = <<>>
    /\ log = <<>>
    /\ printed = <<>>
    /\ files = <<>>
    /\ plot = 1

LogLine(msg, arg, cnt) == [msg |-> msg, arg |-> arg, counts |-> cnt]

\* The process ends: exit(status), or an uncaught exception (status 1).
Halt(status, err) ==
    /\ pc' = "exited"
    /\ exit_status' = status
    /\ error' = err

\* ------------------------------------------------------------------------
\* Actions
\* ------------------------------------------------------------------------

\* Mutant: setup_cli without the os.path.isdir check.
SetupCli_NoDirectoryCheck ==
    /\ pc = "setup_cli"
    /\ IF ~env.path_exists
       THEN /\ printed' = Append(printed, "ERROR: Repo directory does not exist")
            /\ Halt(1, "SystemExit")
       ELSE /\ pc' = "open_repository"
            /\ UNCHANGED <<printed, exit_status, error>>
    /\ UNCHANGED <<inputs, branches, start, idx, cur, seen, counts, commits,
                   committers, domains, log, files, plot>>

\* setup_cli: the checks of --repo.
SetupCli ==
    /\ pc = "setup_cli"
    /\ IF ~env.path_exists
       THEN /\ printed' = Append(printed, "ERROR: Repo directory does not exist")
            /\ Halt(1, "SystemExit")
       ELSE IF ~env.path_isdir
       THEN /\ printed' = Append(printed, "ERROR: Repo is not a directory")
            /\ Halt(1, "SystemExit")
       ELSE /\ pc' = "open_repository"
            /\ UNCHANGED <<printed, exit_status, error>>
    /\ UNCHANGED <<inputs, branches, start, idx, cur, seen, counts, commits,
                   committers, domains, log, files, plot>>

\* main: pygit2.discover_repository and pygit2.Repository.
OpenRepository ==
    /\ pc = "open_repository"
    /\ IF ~repo.is_git
       THEN Halt(1, "GitError")
       ELSE /\ pc' = "find_remote"
            /\ UNCHANGED <<exit_status, error>>
    /\ UNCHANGED <<inputs, branches, start, idx, cur, seen, counts, commits,
                   committers, domains, log, printed, files, plot>>

\* find_remote
FindRemote ==
    /\ pc = "find_remote"
    /\ IF args.remote \in repo.remotes
       THEN /\ pc' = "find_branches"
            /\ log' = Append(log, LogLine("Using remote", args.remote, ZeroCounts))
            /\ UNCHANGED <<exit_status, error>>
       ELSE /\ log' = Append(log, LogLine("Remote not found", args.remote, ZeroCounts))
            /\ Halt(1, "SystemExit")
    /\ UNCHANGED <<inputs, branches, start, idx, cur, seen, counts, commits,
                   committers, domains, printed, files, plot>>

\* main: find_branches(repo, remote, None, log), then the cutoff.
FindBranches ==
    /\ pc = "find_branches"
    /\ LET res == find_branches(repo, args.remote, None)
       IN  IF res.error # ""
           THEN /\ Halt(1, res.error)
                /\ UNCHANGED <<branches, start>>
           ELSE /\ branches' = res.branches
                /\ start' = StartTimestamp(args, env.clock)
                /\ pc' = "examine_master"
                /\ UNCHANGED <<exit_status, error>>
    /\ UNCHANGED <<inputs, idx, cur, seen, counts, commits, committers, domains,
                   log, printed, files, plot>>

\* The entry of examine_branch(repo, branch, ...).
EnterExamineBranch(branch) ==
    /\ cur' = branch
    /\ seen' = {}
    /\ counts' = ZeroCounts
    /\ log' = Append(log, LogLine("Finding relevant commits on branch", branch, ZeroCounts))
    /\ pc' = "examine_branch"

\* main: examine_branch on repo.branches[remote.name + '/master'].
ExamineMaster ==
    /\ pc = "examine_master"
    /\ IF ~BranchExists(repo, FullName(args.remote, s_master))
       THEN /\ Halt(1, "KeyError")
            /\ UNCHANGED <<idx, cur, seen, counts, log>>
       ELSE /\ EnterExamineBranch(FullName(args.remote, s_master))
            /\ idx' = 1
            /\ UNCHANGED <<exit_status, error>>
    /\ UNCHANGED <<inputs, branches, start, commits, committers, domains,
                   printed, files, plot>>

\* examine_branch: one iteration of the loop over repo.walk.
ExamineBranchStep ==
    /\ pc = "examine_branch"
    /\ \E c \in ReadyToVisit(repo, repo.tip[cur], seen) :
          /\ seen' = seen \cup {c}
          /\ commits' = ExamineCommitMap(repo, c, cur, start, env.clock, commits,
                                         args.skip_merge_commits)
          /\ counts' = ExamineCommitCounts(repo, c, start, env.clock, commits, counts,
                                           args.skip_merge_commits)
    /\ UNCHANGED <<inputs, pc, exit_status, error, branches, start, idx, cur,
                   committers, domains, log, printed, files, plot>>

\* examine_branch: the walk is exhausted; log the statistics and return.
ExamineBranchReturn ==
    /\ pc = "examine_branch"
    /\ seen = Reachable(repo, repo.tip[cur])
    /\ log' = Append(log, LogLine("Statistics", cur, counts))
    /\ pc' = "for_branch"
    /\ cur' = <<>>
    /\ seen' = {}
    /\ counts' = ZeroCounts
    /\ UNCHANGED <<inputs, exit_status, error, branches, start, idx, commits,
                   committers, domains, printed, files, plot>>

\* main: "for branch in branches: if 'master' in branch.name: continue".
MainLoop ==
    /\ pc = "for_branch"
    /\ IF idx > Len(branches)
       THEN /\ pc' = "examine_contributions"
            /\ UNCHANGED <<idx, cur, seen, counts, log>>
       ELSE IF contains(s_master, RefName(branches[idx]))
       THEN /\ idx' = idx + 1
            /\ UNCHANGED <<pc, cur, seen, counts, log>>
       ELSE /\ EnterExamineBranch(branches[idx])
            /\ idx' = idx + 1
    /\ UNCHANGED <<inputs, exit_status, error, branches, start, commits,
                   committers, domains, printed, files, plot>>

\* examine_contributions, with its two sanity checks.
ExamineContributions ==
    /\ pc = "examine_contributions"
    /\ LET res == examine_contributions(repo, commits)
           odd1 == IF SumNumCommits(res.committers) # Len(commits)
                   THEN <<"ODDITY: committers">> ELSE <<>>
           odd2 == IF SumNumCommits(res.domains) # Len(commits)
                   THEN <<"ODDITY: domains">> ELSE <<>>
       IN  /\ committers' = res.committers
           /\ domains' = res.domains
           /\ printed' = printed \o odd1 \o odd2
    /\ pc' = "write_commits_csv"
    /\ UNCHANGED <<inputs, exit_status, error, branches, start, idx, cur, seen,
                   counts, commits, log, files, plot>>

\* write_csv(data, filename, log) called at position at, continuing at next.
WriteCsv(at, data, filename, next) ==
    /\ pc = at
    /\ IF WriteCsvError(data) # ""
       THEN /\ Halt(1, WriteCsvError(data))
            /\ UNCHANGED files
       ELSE /\ files' = Put(files, filename, CsvFile(data))
            /\ pc' = next
            /\ UNCHANGED <<exit_status, error>>
    /\ UNCHANGED <<inputs, branches, start, idx, cur, seen, counts, commits,
                   committers, domains, log, printed, plot>>

WriteCommitsCsv ==
    WriteCsv("write_commits_csv", CommitRows(repo, commits, env.clock), "commits.csv",
             "write_committers_csv")

WriteCommittersCsv ==
    WriteCsv("write_committers_csv", committers, "committers.csv", "write_domains_csv")

WriteDomainsCsv ==
    WriteCsv("write_domains_csv", domains, "domains.csv", "pie_plot")

\* main: the next of the four pie_plot calls.
PiePlot ==
    /\ pc = "pie_plot"
    /\ LET p == Plots[plot]
           data == IF p.data = "committers" THEN committers ELSE domains
       IN  files' = Put(files, p.filename, PieFile(data, p.label, p.value, p.title))
    /\ IF plot = Len(Plots)
       THEN pc' = "done" /\ UNCHANGED plot
       ELSE plot' = plot + 1 /\ UNCHANGED pc
    /\ UNCHANGED <<inputs, exit_status, error, branches, start, idx, cur, seen,
                   counts, commits, committers, domains, log, printed>>

\* main: print("Done!") and normal completion.
Done ==
    /\ pc = "done"
    /\ printed' = Append(printed, "Done!")
    /\ Halt(0, "")
    /\ UNCHANGED <<inputs, branches, start, idx, cur, seen, counts, commits,
                   committers, domains, log, files, plot>>

Next ==
    \/ SetupCli
    \/ OpenRepository
    \/ FindRemote
    \/ FindBranches
    \/ ExamineMaster
    \/ ExamineBranchStep
    \/ ExamineBranchReturn
    \/ MainLoop
    \/ ExamineContributions
    \/ WriteCommitsCsv
    \/ WriteCommittersCsv
    \/ WriteDomainsCsv
    \/ PiePlot
    \/ Done

\* ------------------------------------------------------------------------
\* Specifications: the same program over three families of inputs
\* ------------------------------------------------------------------------

AllInside == [c \in Commits |-> Cutoff + 1]
AllOutside == [c \in Commits |-> Cutoff - 1]
Distinct == [c \in Commits |-> c]
DefaultAuthors == [c \in Commits |-> DefaultAuthor(c)]

\* Branch selection and the fatal input errors: every enumeration of up to
\* MaxBranches remote-tracking branches (origin/HEAD only beside the
\* origin/master it points to) over a linear history, and the
\* missing path, non-directory, non-repository and missing-remote runs.
SelectionConfigs ==
    {Config(Arguments(s_origin, flag), Environment(TRUE, TRUE, 0),
            Repository(TRUE, enum, DefaultTip, Chain, times, Distinct, DefaultAuthors)) :
        flag \in BOOLEAN,
        enum \in {q \in Arrangements(BranchNames, MaxBranches) :
                      n_HEAD \in Range(q) => n_master \in Range(q)},
        times \in {AllInside, AllOutside}}
    \cup
    {Config(Arguments(remote, FALSE), Environment(exists, isdir, 0),
            Repository(isgit, <<n_master, n_dev>>, DefaultTip, Chain, AllInside, Distinct,
                       DefaultAuthors)) :
        remote \in {s_origin, s_upstream},
        exists \in BOOLEAN, isdir \in BOOLEAN, isgit \in BOOLEAN}

\* The walk: every history shape, the two branch tips on any commits,
\* timestamps before / at / after the cutoff, short-hash collisions; the
\* other branch is enumerated before the default branch.
WalkConfigs ==
    {Config(Arguments(s_origin, FALSE), Environment(TRUE, TRUE, 1),
            Repository(TRUE, <<n_dev, n_master>>,
                       [n \in BranchNames |-> IF n = n_master THEN m ELSE d],
                       dag, times, pfx, DefaultAuthors)) :
        m \in Commits, d \in Commits,
        dag \in Dags, times \in TimeProfiles, pfx \in PrefixChoices}

\* The aggregation: every assignment of authors to the commits of a linear
\* history that lies inside the window.
AggregationConfigs ==
    {Config(Arguments(s_origin, FALSE), Environment(TRUE, TRUE, 1),
            Repository(TRUE, <<n_master>>, DefaultTip, Chain, AllInside, Distinct, author)) :
        author \in [Commits -> Authors]}

Init == InitFrom(SelectionConfigs)
InitWalk == InitFrom(WalkConfigs)
InitAggregation == InitFrom(AggregationConfigs)

Spec == Init /\ [][Next]_vars
SpecWalk == InitWalk /\ [][Next]_vars
SpecAggregation == InitAggregation /\ [][Next]_vars

\* ------------------------------------------------------------------------
\* Vocabulary of the properties, stated on the inputs and the outputs
\* ------------------------------------------------------------------------

\* The instant of the cutoff: --days days before now.
CutoffInstant == env.clock.now - args.days

InsideWindow(c) == repo.commit_time[c] >= CutoffInstant

ParentCount(c) == Len(repo.parents[c])

\* The first ten characters of a commit's id.
ShortOf(c) == [i \in 1..10 |-> repo.id[c][i]]

AncestorsOf(b) == Reachable(repo, repo.tip[b])

\* The branches examine_branch was invoked on, in order, read off the log.
WalkedBranches ==
    LET lines == SelectSeq(log, LAMBDA l : l.msg = "Finding relevant commits on branch")
    IN  [i \in 1..Len(lines) |-> lines[i].arg]

DefaultBranch == args.remote \o <<"/">> \o s_master

\* The remote-tracking branches of the selected remote, the symbolic HEAD
\* pointer excepted.
BranchesOfRemote ==
    {b \in Range(repo.remote_branches) :
        /\ Len(b) > Len(args.remote)
        /\ SubSeq(b, 1, Len(args.remote) + 1) = args.remote \o <<"/">>
        /\ SubSeq(b, Len(args.remote) + 2, Len(b)) # s_HEAD}

\* Every branch has been walked and main has left its loop.
WalkDone == idx >= 1 /\ idx > Len(branches) /\ pc \notin {"examine_branch", "for_branch"}

\* examine_contributions has returned.
AggregationDone == WalkDone /\ pc # "examine_contributions"

RemoteLookupSucceeded == \E i \in 1..Len(log) : log[i].msg = "Using remote"

InMap(c) == \E i \in 1..Len(commits) : commits[i].val.commit = c

NoAt(email) == \A i \in 1..Len(email) : email[i] # "@"

EmailOf(i) == repo.author[commits[i].val.commit].email

SkippedEntries == Cardinality({i \in 1..Len(commits) : NoAt(EmailOf(i))})

CellSum(cnt) ==
    cnt.unique.inside + cnt.unique.outside + cnt.duplicate.inside + cnt.duplicate.outside

OutsideSum(cnt) == cnt.unique.outside + cnt.duplicate.outside

InsideSum(cnt) == cnt.unique.inside + cnt.duplicate.inside

Artifacts ==
    {"commits.csv", "committers.csv", "domains.csv",
     "committers-num-commits-plot.pdf", "committers-num-additions-plot.pdf",
     "domains-num-commits-plot.pdf", "domains-num-additions-plot.pdf"}

Written == {files[i].key : i \in 1..Len(files)}

\* ------------------------------------------------------------------------
\* Properties
\* ------------------------------------------------------------------------

\* A non-merge commit inside the window that the default branch shares with
\* another branch of the remote.
SharedWithDefault(c) ==
    /\ ParentCount(c) <= 1
    /\ InsideWindow(c)
    /\ DefaultBranch \in BranchesOfRemote
    /\ c \in AncestorsOf(DefaultBranch)
    /\ \E b \in BranchesOfRemote \ {DefaultBranch} : c \in AncestorsOf(b)

\* C1: once all branches have been walked, the commit map's entry under the
\* short hash of a non-merge, in-window commit that is reachable from the
\* default branch and from another branch records the default branch.
C1_SharedCommitOnDefaultBranch ==
    WalkDone =>
        \A c \in Commits :
            SharedWithDefault(c) =>
                /\ HasKey(commits, ShortOf(c))
                /\ Get(commits, ShortOf(c)).branch = DefaultBranch

\* C1's case: the walk is over, the other branch was walked after the default
\* branch although it is enumerated first, and a shared commit is in the map.
C1_Witness ==
    /\ WalkDone
    /\ Len(WalkedBranches) = 2
    /\ repo.remote_branches[1] # DefaultBranch
    /\ \E c \in Commits : SharedWithDefault(c) /\ InMap(c)

\* C3: with merge-skip enabled no commit with more than one parent is in the
\* commit map, the counters of a walk count exactly the visited commits with
\* at most one parent, and commits.csv has one row per map entry, so a merge
\* commit reaches no count and no row.
C3_MergesExcluded ==
    args.skip_merge_commits =>
        /\ \A i \in 1..Len(commits) : ParentCount(commits[i].val.commit) <= 1
        /\ pc = "examine_branch" =>
              /\ counts.total = Cardinality({c \in seen : ParentCount(c) <= 1})
              /\ CellSum(counts) = counts.total
        /\ \A i \in 1..Len(log) :
              log[i].msg = "Statistics" =>
                  /\ log[i].counts.total =
                        Cardinality({c \in AncestorsOf(log[i].arg) : ParentCount(c) <= 1})
                  /\ CellSum(log[i].counts) = log[i].counts.total
        /\ AggregationDone =>
              /\ SumNumCommits(committers) <= Len(commits)
              /\ SumNumCommits(domains) <= Len(commits)
        /\ HasKey(files, "commits.csv") =>
              LET rows == Get(files, "commits.csv").rows
              IN  /\ Len(rows) = Len(commits)
                  /\ \A i \in 1..Len(rows) : rows[i].sha = commits[i].key

\* C3's case: a walk has visited a merge commit that lies inside the window,
\* and has counted other commits.
C3_Witness ==
    /\ pc = "examine_branch"
    /\ args.skip_merge_commits
    /\ counts.total > 0
    /\ \E c \in seen : ParentCount(c) > 1 /\ InsideWindow(c)

\* C4: a step of the walk that visits a commit with at most one parent counts
\* it outside exactly when its timestamp is strictly before the cutoff and
\* inside otherwise; it inserts a first-seen commit timestamped exactly at the
\* cutoff and inserts nothing for a commit before the cutoff.
C4_Classification ==
    [][\A c \in Commits :
          (pc = "examine_branch" /\ c \notin seen /\ c \in seen' /\ ParentCount(c) <= 1) =>
              /\ (repo.commit_time[c] < CutoffInstant) =>
                    /\ OutsideSum(counts') = OutsideSum(counts) + 1
                    /\ InsideSum(counts') = InsideSum(counts)
                    /\ commits' = commits
              /\ (repo.commit_time[c] >= CutoffInstant) =>
                    /\ InsideSum(counts') = InsideSum(counts) + 1
                    /\ OutsideSum(counts') = OutsideSum(counts)
              /\ (repo.commit_time[c] = CutoffInstant /\ ~HasKey(commits, ShortOf(c))) =>
                    /\ Len(commits') = Len(commits) + 1
                    /\ commits'[Len(commits')].val.commit = c
      ]_vars

\* C4's case: a commit timestamped exactly at the cutoff is in the map while
\* the same walk has classified another commit outside.
C4_Witness ==
    /\ pc = "examine_branch"
    /\ OutsideSum(counts) > 0
    /\ \E i \in 1..Len(commits) :
          /\ repo.commit_time[commits[i].val.commit] = CutoffInstant
          /\ commits[i].val.branch = cur

\* C8: every step leaves the commit map unchanged or, during a walk, appends
\* one entry under a key that was absent; no entry is changed or removed.
C8_MapOnlyGrows ==
    [][\/ commits' = commits
       \/ /\ pc = "examine_branch"
          /\ Len(commits') = Len(commits) + 1
          /\ SubSeq(commits', 1, Len(commits)) = commits
          /\ ~HasKey(commits, commits'[Len(commits')].key)
      ]_vars

\* C8's case: a later branch's walk has met a commit that is already in the
\* map, and the run goes on to aggregation and export with a non-empty map.
C8_Witness ==
    /\ pc = "done"
    /\ Len(commits) >= 2
    /\ \E i \in 1..Len(log) :
          /\ log[i].msg = "Statistics"
          /\ log[i].arg # DefaultBranch
          /\ log[i].counts.duplicate.inside > 0
          /\ log[i].counts.unique.inside > 0

\* A commit reachable from the tip of a walked branch that is not a skipped
\* merge and lies at or after the cutoff.
Eligible(c) ==
    /\ ~(ParentCount(c) > 1 /\ args.skip_merge_commits)
    /\ InsideWindow(c)
    /\ \E i \in 1..Len(WalkedBranches) : c \in AncestorsOf(WalkedBranches[i])

\* C9 as stated: after the walk a commit is in the map if and only if it is
\* eligible, and then exactly once.
C9_EveryEligibleCommitRecorded ==
    WalkDone =>
        \A c \in Commits :
            /\ InMap(c) <=> Eligible(c)
            /\ Cardinality({i \in 1..Len(commits) : commits[i].val.commit = c}) <= 1

\* C9 amended: after the walk the map has an entry under a short hash if and
\* only if an eligible commit has that short hash; each entry holds an
\* eligible commit under that commit's short hash, and no key occurs twice.
C9_EligibleShortHashesRecorded ==
    WalkDone =>
        /\ \A c \in Commits : Eligible(c) => HasKey(commits, ShortOf(c))
        /\ \A i \in 1..Len(commits) :
              /\ Eligible(commits[i].val.commit)
              /\ commits[i].key = ShortOf(commits[i].val.commit)
              /\ commits[i].val.sha = commits[i].key
        /\ \A i, j \in 1..Len(commits) : commits[i].key = commits[j].key => i = j

\* C9's case: the walk is over and two different eligible commits share a
\* short hash, one of them in the map.
C9_Witness ==
    /\ WalkDone
    /\ \E c, d \in Commits :
          /\ c # d
          /\ Eligible(c) /\ Eligible(d)
          /\ ShortOf(c) = ShortOf(d)
          /\ InMap(c)

\* C2: when examine_contributions has returned, the committers' and the
\* domains' num_commits both sum to the size of the commit map less the
\* entries whose author e-mail has no '@', and each ODDITY line is printed
\* exactly when there is such an entry.
C2_SumsMatchMapLessSkipped ==
    AggregationDone =>
        /\ SumNumCommits(committers) = Len(commits) - SkippedEntries
        /\ SumNumCommits(domains) = Len(commits) - SkippedEntries
        /\ ("ODDITY: committers" \in Range(printed)) <=> (SkippedEntries > 0)
        /\ ("ODDITY: domains" \in Range(printed)) <=> (SkippedEntries > 0)

\* C2's case: aggregation is over, an entry was skipped for its e-mail and
\* others were counted.
C2_Witness ==
    /\ AggregationDone
    /\ SkippedEntries > 0
    /\ SumNumCommits(committers) > 0
    /\ "ODDITY: committers" \in Range(printed)

\* The part of an e-mail after its '@', cut to its last two dot-separated
\* labels when it has more than two.
AfterAt(email) == SubSeq(email, FindChar(email, s_at) + 1, Len(email))

Labels(domain) == split(domain, s_dot, -1)

ExpectedBucket(email) ==
    IF Len(Labels(AfterAt(email))) > 2
    THEN join(s_dot, LastTwo(Labels(AfterAt(email))))
    ELSE AfterAt(email)

\* C10: for every aggregated commit the domain bucket, and the committer's
\* domain field, is the part of the e-mail after '@' cut to its last two
\* labels; every domain key has at most two labels.
C10_DomainIsPartAfterAt ==
    AggregationDone =>
        /\ \A i \in 1..Len(commits) :
              ~NoAt(EmailOf(i)) =>
                  /\ HasKey(domains, ExpectedBucket(EmailOf(i)))
                  /\ HasKey(committers, EmailOf(i))
                  /\ Get(committers, EmailOf(i)).domain = ExpectedBucket(EmailOf(i))
        /\ \A i \in 1..Len(domains) : Len(Labels(domains[i].key)) <= 2

\* C5: once the walk is over, examine_branch has been invoked on the default
\* branch first and exactly once on every branch of the remote but HEAD.
C5_EveryBranchWalkedOnce ==
    WalkDone =>
        /\ WalkedBranches[1] = DefaultBranch
        /\ Range(WalkedBranches) = BranchesOfRemote
        /\ Len(WalkedBranches) = Cardinality(BranchesOfRemote)

BadInput == ~env.path_exists \/ ~env.path_isdir \/ args.remote \notin repo.remotes

\* C6: a run whose --repo is missing or no directory, or whose remote does
\* not exist, walks no branch, keeps the commit map empty, writes no
\* artifact, never leaves the start-up steps, cannot stop before it exits,
\* and exits with status 1.
C6_FatalInputErrors ==
    BadInput =>
        /\ commits = <<>>
        /\ files = <<>>
        /\ WalkedBranches = <<>>
        /\ pc \in {"setup_cli", "open_repository", "find_remote", "exited"}
        /\ pc = "exited" => exit_status = 1
        /\ pc # "exited" => exit_status = -1 /\ ENABLED Next

\* C6's case: the repository is valid, the remote is not found, and the run
\* has exited.
C6_Witness ==
    /\ pc = "exited"
    /\ env.path_exists /\ env.path_isdir /\ repo.is_git
    /\ args.remote \notin repo.remotes
    /\ exit_status = 1

\* A repository that has the default branch and whose branch names are all
\* of the form <remote>/<name>.
PlainRepository ==
    /\ DefaultBranch \in Range(repo.remote_branches)
    /\ \A b \in Range(repo.remote_branches) : Len(split(b, s_slash, -1)) = 2

\* C7: a run that has passed the path checks and found its remote ends only
\* by normal completion: status 0, "Done!" printed, all artifacts written.
\* Stated for the repositories the claim names, which have the default
\* branch and plain branch names, HEAD among them.
C7_PipelineNeverHalts ==
    (pc = "exited" /\ RemoteLookupSucceeded /\ PlainRepository) =>
        /\ exit_status = 0
        /\ "Done!" \in Range(printed)
        /\ Written = Artifacts

====
